---- MODULE Spec2Model ----
(***************************************************************************)
(* State-machine model of three programs of HG2Vec-Multi-Lang:             *)
(*   src/tools/pair_generators/generate_weak_strong_pairs.py               *)
(*     generate_pairs  - reads the definitions file, classifies every      *)
(*                       (word, definition token) occurrence as strong or  *)
(*                       weak, optionally synthesizes strong pairs from    *)
(*                       the K nearest embedding neighbours                *)
(*     loadEmbedding   - two passes over the vector file                   *)
(*   src/tools/processors/preprocessor/edge_generator.py                   *)
(*     the biased random walk sampler and its worker processes             *)
(*   src/tools/downloaders/download_definitions.py                         *)
(*     the ThreadDown and ThreadWrite threads and main's monitoring loop   *)
(*                                                                         *)
(* Strings are sequences of character codes, so that Python's string       *)
(* ordering (min/max at lines 281, 327, 332) and int()/float() parsing     *)
(* (lines 57-58, 69, 151-152, 166, 185) are computed, not assumed.         *)
(***************************************************************************)
EXTENDS Integers, Sequences, FiniteSets, TLC

(***************************************************************************)
(* Bounds of the model.                                                    *)
(***************************************************************************)
\* lines of the definitions file
MaxDefLines == 2
\* words (entry words and definition tokens) in the whole definitions file
MaxDefWords == 5
\* largest fan-out K given on the command line
MaxK == 1
\* lines of the vector file when loadEmbedding is run on its own
MaxVecLines == 2
\* largest --max_length of the walk sampler
MaxLength == 3
\* largest --n_samples of the walk sampler
MaxSamples == 2
\* largest --num_processes of the walk sampler
MaxProcesses == 2
\* most words the downloader is given to fetch
MaxVocabulary == 2
\* most ThreadDown threads of one dictionary
MaxThreads == 2

(***************************************************************************)
(* Strings.                                                                *)
(***************************************************************************)
animal == <<97, 110, 105, 109, 97, 108>>
cat == <<99, 97, 116>>
feline == <<102, 101, 108, 105, 110, 101>>
Words == {animal, cat, feline}

\* numeric literals and a non-numeric value, as they stand in a vector file
d0 == <<48>>
d1 == <<49>>
d2 == <<50>>
xx == <<120>>

\* Python's str < str: code points compared left to right, a proper prefix
\* is smaller.
RECURSIVE StrLess(_, _)
StrLess(a, b) ==
    IF b = <<>> THEN FALSE
    ELSE IF a = <<>> THEN TRUE
    ELSE IF Head(a) # Head(b) THEN Head(a) < Head(b)
    ELSE StrLess(Tail(a), Tail(b))

\* min(a, b) and max(a, b) of two strings
StrMin(a, b) == IF StrLess(b, a) THEN b ELSE a
StrMax(a, b) == IF StrLess(a, b) THEN b ELSE a

IsDigits(s) == s # <<>> /\ \A i \in 1..Len(s) : s[i] \in 48..57

\* int(s) succeeds (no ValueError). Over the tokens of this model (letters
\* and digits only) int() accepts exactly the digit strings.
IntOk(s) == IsDigits(s)

\* float(s) succeeds (no ValueError): over the tokens of this model, the
\* digit strings as well.
FloatOk(s) == IsDigits(s)

\* the number a digit string denotes
RECURSIVE NumVal(_)
NumVal(s) ==
    IF s = <<>> THEN 0
    ELSE 10 * NumVal(SubSeq(s, 1, Len(s) - 1)) + (s[Len(s)] - 48)

\* sequences over S of length 0..n
SeqsUpTo(S, n) == UNION {[1..m -> S] : m \in 0..n}

Range(s) == {s[i] : i \in 1..Len(s)}

(***************************************************************************)
(* collections.Counter and dict, both insertion-ordered in Python: a       *)
(* Counter is a sequence of [tok, n], a dict a sequence of [word, defn].   *)
(***************************************************************************)
CounterKeys(c) == {c[i].tok : i \in 1..Len(c)}

CounterAdd(c, t) ==
    IF t \in CounterKeys(c)
    THEN [i \in 1..Len(c) |-> IF c[i].tok = t THEN [tok |-> t, n |-> c[i].n + 1] ELSE c[i]]
    ELSE Append(c, [tok |-> t, n |-> 1])

\* Counter(ar[1:]) (line 233)
RECURSIVE Counter(_)
Counter(s) ==
    IF s = <<>> THEN <<>>
    ELSE CounterAdd(Counter(SubSeq(s, 1, Len(s) - 1)), s[Len(s)])

DictKeys(d) == {d[i].word : i \in 1..Len(d)}

\* d[w], for w in d
DictGet(d, w) == d[CHOOSE i \in 1..Len(d) : d[i].word = w].defn

\* faulty variant: the first record of a word is kept
DictKeepFirst(d, w, c) ==
    IF w \in DictKeys(d) THEN d ELSE Append(d, [word |-> w, defn |-> c])

\* d[w] = c (line 234): an existing key keeps its place, a new one goes last
DictSet(d, w, c) ==
    IF w \in DictKeys(d)
    THEN [i \in 1..Len(d) |-> IF d[i].word = w THEN [word |-> w, defn |-> c] ELSE d[i]]
    ELSE Append(d, [word |-> w, defn |-> c])

(***************************************************************************)
(* Inputs. A text file is the sequence of its lines, a line the sequence   *)
(* of its whitespace-separated tokens (what str.split() returns); a blank  *)
(* line is <<>>.                                                           *)
(***************************************************************************)
\* the definitions files: at most l lines holding at most w words in all
RECURSIVE DefFilesOf(_, _)
DefFilesOf(l, w) ==
    IF l = 0 THEN {<<>>}
    ELSE {<<>>} \cup UNION {{<<ln>> \o rest : rest \in DefFilesOf(l - 1, w - Len(ln))} :
                            ln \in SeqsUpTo(Words, w)}

DefFiles == DefFilesOf(MaxDefLines, MaxDefWords)

\* a vector file as generate_pairs is given it: no file name on the command
\* line (embedding_fn is None), a name with no file behind it, or a file
VecFile(ls) == [given |-> TRUE, exists |-> TRUE, lines |-> ls]
NoVecName == [given |-> FALSE, exists |-> FALSE, lines |-> <<>>]
VecAbsent == [given |-> TRUE, exists |-> FALSE, lines |-> <<>>]

\* "<count> <dim>"
Header == <<d2, d2>>

\* the vector files of the runs that explore the definitions
VF_Empty == <<>>
VF_NoRows == <<Header, <<cat, d1, xx>>>>
VF_Two == <<Header, <<feline, d1, d0>>, <<animal, d1, d1>>>>
VF_Three == <<Header, <<cat, d1, d0>>, <<feline, d1, d1>>, <<animal, d0, d1>>>>
VF_Tie == <<<<cat, d1, d0>>, <<feline, d1, d0>>, <<animal, d2, d0>>>>
PairVecFiles ==
    {NoVecName, VecAbsent} \cup
    {VecFile(ls) : ls \in {VF_Empty, VF_NoRows, VF_Two, VF_Three, VF_Tie}}

\* the lines of the vector files of the runs that explore loadEmbedding
VecVals == {<<d1, d0>>, <<d0, d1>>, <<d1, xx>>, <<d2>>, <<xx>>}
VecLines == {<<>>, Header} \cup {<<w>> \o v : w \in Words, v \in VecVals}
VecFiles == {VecFile(ls) : ls \in SeqsUpTo(VecLines, MaxVecLines)}

\* ... and their definitions files, with one, two and three words
VecDefFiles ==
    { <<<<cat, cat>>>>,
      <<<<cat, feline>>, <<feline, cat>>>>,
      <<<<cat, feline, animal>>, <<feline, cat>>>> }

(***************************************************************************)
(* State.                                                                  *)
(***************************************************************************)
VARIABLES
    pc,             \* position in generate_pairs / loadEmbedding
    exception,      \* the exception that ended the run and the line that raised it
    definition_fn,  \* the definitions file (its lines)
    embedding_fn,   \* the vector file
    K,              \* fan-out
    nread,          \* lines of the definitions file consumed by "for line in f"
    dictionary,     \* word -> Counter of its definition tokens
    uniq_words,     \* every word and token of the definitions file
    nb_word,        \* loadEmbedding: rows counted by the first pass
    nb_dims,        \* loadEmbedding: dimension
    valid_words,    \* loadEmbedding: words counted by the first pass
    embedding,      \* the matrix: row index -> row
    numToWords,     \* row index -> word
    wordsToNum,     \* word -> row index
    cursor,         \* classification: <<i, j>>, the j-th token of the i-th word
    strong,         \* set of strong pairs
    weak,           \* set of weak pairs
    out_files,      \* the pair files written: name -> set of lines
    args,           \* edge_generator.py: the parsed command line
    main_pc,        \* edge_generator.py: position of the main process
    processes,      \* the worker processes started so far (their number)
    joined,         \* the worker processes joined so far (their number)
    worker,         \* local_rank -> the locals of that worker process
    shards,         \* the walk files written: name -> array
    exitFlag,       \* download_definitions.py: the global stop flag
    queues,         \* the word queue of the dictionary
    queue_msg,      \* the queue of fetched definitions, read by ThreadWrite
    threads,        \* the threads: 0 is thread_writer, the others ThreadDown
    down_pc         \* download_definitions.py: position of main

vars == <<pc, exception, definition_fn, embedding_fn, K, nread, dictionary,
          uniq_words, nb_word, nb_dims, valid_words, embedding, numToWords,
          wordsToNum, cursor, strong, weak, out_files,
          args, main_pc, processes, joined, worker, shards,
          exitFlag, queues, queue_msg, threads, down_pc>>

\* the state of generate_weak_strong_pairs.py and of edge_generator.py
pairvars == <<pc, exception, definition_fn, embedding_fn, K, nread, dictionary,
              uniq_words, nb_word, nb_dims, valid_words, embedding, numToWords,
              wordsToNum, cursor, strong, weak, out_files>>
walkvars == <<args, main_pc, processes, joined, worker, shards>>
\* the state of download_definitions.py
downvars == <<exitFlag, queues, queue_msg, threads, down_pc>>

\* the empty dict {} and the matrix before it exists (None, line 244)
EmptyMap == [x \in {} |-> 0]

NoException == [type |-> "none", line |-> 0]

\* edge_generator.py is not running
NoArgs == [run_mode |-> "none"]
SamplerOff ==
    /\ args = NoArgs
    /\ main_pc = "off"
    /\ processes = 0
    /\ joined = 0
    /\ worker = EmptyMap
    /\ shards = EmptyMap

\* download_definitions.py is not running
DownloaderOff ==
    /\ exitFlag = 0
    /\ queues = <<>>
    /\ queue_msg = <<>>
    /\ threads = EmptyMap
    /\ down_pc = "off"

\* the state at the entry of generate_pairs(definition_fn, embedding_fn, _, _, K)
Entry(df, ef, k) ==
    /\ pc = "read"
    /\ exception = NoException
    /\ definition_fn = df
    /\ embedding_fn = ef
    /\ K = k
    /\ nread = 0
    /\ dictionary = <<>>
    /\ uniq_words = {}
    /\ nb_word = 0
    /\ nb_dims = 0
    /\ valid_words = <<>>
    /\ embedding = EmptyMap
    /\ numToWords = EmptyMap
    /\ wordsToNum = EmptyMap
    /\ cursor = <<1, 1>>
    /\ strong = {}
    /\ weak = {}
    /\ out_files = EmptyMap
    /\ SamplerOff
    /\ DownloaderOff

\* runs over all definitions files, with a few vector files
Init ==
    \E df \in DefFiles, k \in 0..MaxK, ef \in PairVecFiles :
        /\ k = 0 => ef \in {NoVecName, VecAbsent, VecFile(VF_Three)}
        /\ Entry(df, ef, k)

\* runs over all vector files, with a few definitions files
InitVec ==
    \E df \in VecDefFiles, k \in 1..MaxK, ef \in VecFiles : Entry(df, ef, k)

\* an exception no handler catches ends the run
Raise(e, ln) == pc' = "raised" /\ exception' = [type |-> e, line |-> ln]

(***************************************************************************)
(* generate_pairs, lines 225-237: one record of the definitions file.      *)
(***************************************************************************)
ReadDefinition ==
    /\ pc = "read"
    /\ UNCHANGED walkvars
    /\ UNCHANGED downvars
    /\ nread < Len(definition_fn)
    /\ LET ar == definition_fn[nread + 1] IN
        /\ nread' = nread + 1
        /\ IF ar = <<>>
           THEN \* ar[0] on an empty list (line 233)
                /\ Raise("IndexError", 233)
                /\ UNCHANGED <<dictionary, uniq_words>>
           ELSE /\ dictionary' = DictSet(dictionary, ar[1], Counter(Tail(ar)))
                /\ uniq_words' = uniq_words \cup Range(ar)
                /\ UNCHANGED <<pc, exception>>
    /\ UNCHANGED <<definition_fn, embedding_fn, K, nb_word, nb_dims, valid_words,
                   embedding, numToWords, wordsToNum, cursor, strong, weak, out_files>>

(***************************************************************************)
(* generate_pairs, lines 239-257: after the last record, load the          *)
(* embedding only if K > 0 and a file name was given.                      *)
(***************************************************************************)
\* faulty variant: the file is loaded whenever it is named
LoadsWhenNamed(k, ef) == ef.given

\* "K > 0 and embedding_fn" (line 245)
LoadsEmbedding(k, ef) == k > 0 /\ ef.given

LoadDecision ==
    /\ pc = "read"
    /\ UNCHANGED walkvars
    /\ UNCHANGED downvars
    /\ nread = Len(definition_fn)
    /\ IF LoadsEmbedding(K, embedding_fn)
       THEN pc' = "pass1" /\ K' = K
       ELSE pc' = "classify" /\ K' = 0
    /\ UNCHANGED <<exception, definition_fn, embedding_fn, nread, dictionary,
                   uniq_words, nb_word, nb_dims, valid_words, embedding,
                   numToWords, wordsToNum, cursor, strong, weak, out_files>>

(***************************************************************************)
(* loadEmbedding(filename, list_words), first pass (lines 47-143): count   *)
(* the rows and find the dimension, then allocate the matrix.              *)
(***************************************************************************)
\* the first line is "<count> <dim>": two tokens, both accepted by int()
\* (lines 55-58, 149-152)
IsHeader(first_line) ==
    Len(first_line) = 2 /\ IntOk(first_line[1]) /\ IntOk(first_line[2])

\* [float(x) for x in parts[1:]] raises no ValueError (lines 69, 84, 98, 112, 126)
AllFloat(parts) == \A i \in 2..Len(parts) : FloatOk(parts[i])

\* a line after the first is counted (lines 63-71, 92-100, 120-128)
Counted(parts, list_words) ==
    Len(parts) > 1 /\ parts[1] \in list_words /\ AllFloat(parts)

\* a first line that is no header is counted (lines 78-86, 106-114)
FirstCounted(first_line, list_words) ==
    first_line[1] \in list_words /\ AllFloat(first_line)

\* the words appended to valid_words by the lines ls, in order
RECURSIVE CountedWords(_, _)
CountedWords(ls, list_words) ==
    IF ls = <<>> THEN <<>>
    ELSE (IF Counted(Head(ls), list_words) THEN <<Head(ls)[1]>> ELSE <<>>)
         \o CountedWords(Tail(ls), list_words)

\* np.zeros((n, d)) (line 140)
Zeros(n, d) == [i \in 0..(n - 1) |-> [j \in 1..d |-> 0]]

LoadCount ==
    /\ pc = "pass1"
    /\ UNCHANGED walkvars
    /\ UNCHANGED downvars
    /\ IF ~embedding_fn.exists
       THEN \* open() fails; caught and re-raised (lines 132-134)
            /\ Raise("FileNotFoundError", 52)
            /\ UNCHANGED <<nb_word, nb_dims, valid_words, embedding>>
       ELSE IF embedding_fn.lines = <<>> \/ Head(embedding_fn.lines) = <<>>
       THEN \* first_line[0] on an empty list (line 106), re-raised (line 134)
            /\ Raise("IndexError", 106)
            /\ UNCHANGED <<nb_word, nb_dims, valid_words, embedding>>
       ELSE LET first_line == Head(embedding_fn.lines)
                rest == Tail(embedding_fn.lines)
                dims == IF IsHeader(first_line) THEN NumVal(first_line[2])
                        ELSE Len(first_line) - 1
                valid == (IF ~IsHeader(first_line) /\ FirstCounted(first_line, uniq_words)
                          THEN <<first_line[1]>> ELSE <<>>)
                         \o CountedWords(rest, uniq_words)
            IN  /\ nb_dims' = dims
                /\ valid_words' = valid
                /\ nb_word' = Len(valid)
                /\ embedding' = Zeros(Len(valid), dims)
                /\ pc' = "pass2"
                /\ UNCHANGED exception
    /\ numToWords' = EmptyMap
    /\ wordsToNum' = EmptyMap
    /\ UNCHANGED <<definition_fn, embedding_fn, K, nread, dictionary, uniq_words,
                   cursor, strong, weak, out_files>>

(***************************************************************************)
(* loadEmbedding, second pass (lines 146-206): fill the rows, normalize,   *)
(* return.                                                                 *)
(***************************************************************************)
\* list(map(float, parts[1:])) (lines 166, 185)
Vals(parts) == [i \in 1..(Len(parts) - 1) |-> NumVal(parts[i + 1])]

\* "embedding[idx] = vals" (lines 167, 186) for a row of d cells: numpy
\* broadcasts a single value to the whole row and raises ValueError for any
\* other length than d
Fits(vals, d) == Len(vals) = d \/ Len(vals) = 1
RowOf(vals, d) == IF Len(vals) = d THEN vals ELSE [j \in 1..d |-> vals[1]]

\* the line is taken by the second pass: long enough (line 162 for the first
\* line, 178 for the others) and its word in valid_words (lines 164, 183)
Taken(parts, is_first, valid) ==
    /\ Len(parts) > (IF is_first THEN 2 ELSE 1)
    /\ parts[1] \in Range(valid)

\* one line of the second pass on the loop state st = [emb, n2w, w2n, idx, exc]
FillLine(st, parts, is_first, valid, n, d) ==
    IF st.exc # NoException \/ ~Taken(parts, is_first, valid) THEN st
    ELSE IF ~AllFloat(parts) THEN st                \* ValueError, lines 171, 190
    ELSE IF st.idx >= n
         THEN [st EXCEPT !.exc = [type |-> "IndexError",
                                  line |-> IF is_first THEN 167 ELSE 186]]
    ELSE IF ~Fits(Vals(parts), d) THEN st           \* ValueError, lines 171, 190
    ELSE [emb |-> [st.emb EXCEPT ![st.idx] = RowOf(Vals(parts), d)],
          n2w |-> (st.idx :> parts[1]) @@ st.n2w,
          w2n |-> (parts[1] :> st.idx) @@ st.w2n,
          idx |-> st.idx + 1,
          exc |-> NoException]

\* the lines ls from the k-th on
RECURSIVE FillFrom(_, _, _, _, _, _)
FillFrom(st, ls, k, valid, n, d) ==
    IF k > Len(ls) THEN st
    ELSE FillFrom(FillLine(st, ls[k], k = 1, valid, n, d), ls, k + 1, valid, n, d)

\* a cell of a row whose norm is 0: 0/0 (line 201)
NaN == -1

RECURSIVE Gcd(_, _)
Gcd(a, b) == IF b = 0 THEN a ELSE Gcd(b, a % b)

RECURSIVE RowGcd(_)
RowGcd(row) == IF row = <<>> THEN 0 ELSE Gcd(Head(row), RowGcd(Tail(row)))

\* row / norm(row) (line 201). The unit vector v/|v| is held as the
\* smallest integer vector of its direction, so two rows are equal exactly
\* when their unit vectors are; a zero row becomes NaN.
Normalize(row) ==
    IF RowGcd(row) = 0 THEN [j \in 1..Len(row) |-> NaN]
    ELSE [j \in 1..Len(row) |-> row[j] \div RowGcd(row)]

LoadFill ==
    /\ pc = "pass2"
    /\ UNCHANGED walkvars
    /\ UNCHANGED downvars
    /\ LET ls == embedding_fn.lines
           \* a header line is skipped: first_line = None (line 154)
           from == IF IsHeader(Head(ls)) THEN 2 ELSE 1
           st == FillFrom([emb |-> embedding, n2w |-> EmptyMap, w2n |-> EmptyMap,
                           idx |-> 0, exc |-> NoException],
                          ls, from, valid_words, nb_word, nb_dims)
       IN  IF st.exc # NoException
           THEN /\ Raise(st.exc.type, st.exc.line)
                /\ UNCHANGED <<embedding, numToWords, wordsToNum>>
           ELSE /\ embedding' = [i \in DOMAIN st.emb |-> Normalize(st.emb[i])]
                /\ numToWords' = st.n2w
                /\ wordsToNum' = st.w2n
                /\ pc' = "classify"
                /\ UNCHANGED exception
    /\ UNCHANGED <<definition_fn, embedding_fn, K, nread, dictionary, uniq_words,
                   nb_word, nb_dims, valid_words, cursor, strong, weak, out_files>>

(***************************************************************************)
(* generate_pairs, lines 260-334: one iteration of the inner loop, on one  *)
(* definition token of one word.                                           *)
(***************************************************************************)
\* faulty variant: the inner loop stops after the first token of each entry
RECURSIVE SeekFirstOnly(_, _, _)
SeekFirstOnly(d, i, j) ==
    IF i > Len(d) THEN <<i, 1>>
    ELSE IF j = 1 /\ Len(d[i].defn) >= 1 THEN <<i, j>>
    ELSE SeekFirstOnly(d, i + 1, 1)

\* the next <<i, j>> from <<i, j>> on with a j-th token in the i-th entry;
\* i = Len(d) + 1 when the loops are over
RECURSIVE Seek(_, _, _)
Seek(d, i, j) ==
    IF i > Len(d) THEN <<i, 1>>
    ELSE IF j <= Len(d[i].defn) THEN <<i, j>>
    ELSE Seek(d, i + 1, 1)

\* faulty variant: a token without an entry counts as mentioning the word
IsStrongUnlessDefined(d, word, definition_token) ==
    \/ definition_token \notin DictKeys(d)
    \/ word \in CounterKeys(DictGet(d, definition_token))

\* faulty variant: the token only has to be defined
IsStrongOneWay(d, word, definition_token) == definition_token \in DictKeys(d)

\* "definition_token in dictionary and word in dictionary[definition_token]"
\* (lines 277-278)
IsStrong(d, word, definition_token) ==
    /\ definition_token \in DictKeys(d)
    /\ word \in CounterKeys(DictGet(d, definition_token))

\* faulty variant: the pair is kept as read
CanonAsRead(a, b) == <<a, b>>

\* "w1, w2 = min(a, b), max(a, b)" (lines 281, 327, 332)
Canon(a, b) == <<StrMin(a, b), StrMax(a, b)>>

Dot(a, b) == LET RECURSIVE Sum(_)
                 Sum(j) == IF j = 0 THEN 0 ELSE a[j] * b[j] + Sum(j - 1)
             IN  Sum(Len(a))

HasNaN(row) == \E j \in 1..Len(row) : row[j] = NaN

\* cosine_sim[i] >= cosine_sim[j] in the order numpy partitions by, where
\* cosine_sim = embedding.dot(t) (line 317), r1 and r2 are rows i and j, and
\* NaN sorts after every number. For normalized non-negative rows
\* cos(r, t) = r.t / (|r| |t|), compared here by cross-multiplied squares.
CosGeq(r1, r2, t) ==
    \/ HasNaN(r1) \/ HasNaN(t)
    \/ /\ ~HasNaN(r2)
       /\ Dot(r1, t) * Dot(r1, t) * Dot(r2, r2) >= Dot(r2, t) * Dot(r2, t) * Dot(r1, r1)

\* np.argpartition(cosine_sim, -(k+1))[-(k+1):] (line 318): k+1 row indices
\* holding the k+1 largest similarities; which of several equal ones are
\* taken is not specified. No such set when there are fewer than k+1 rows
\* (numpy raises ValueError: kth out of bounds).
ArgPartition(emb, t, k) ==
    {S \in SUBSET DOMAIN emb :
        /\ Cardinality(S) = k + 1
        /\ \A i \in S, j \in DOMAIN emb \ S : CosGeq(emb[i], emb[j], t)}

\* the pairs added by the loop of lines 322-328 over the indexes S
Synthesized(word, definition_token, S, n2w) ==
    {Canon(word, n2w[i]) : i \in {x \in S : n2w[x] # definition_token}}

\* faulty variant: the test for the token's row (line 290) comes first, and
\* the pair of a token without a row is not recorded
RecordedIfRow(s, word, definition_token) ==
    IF definition_token \in DOMAIN wordsToNum
    THEN s \cup {Canon(word, definition_token)} ELSE s

\* "if not (w1,w2) in strong: strong.add((w1,w2))" (lines 281-283), before
\* anything is asked of the embedding
Recorded(s, word, definition_token) == s \cup {Canon(word, definition_token)}

Classify ==
    /\ pc = "classify"
    /\ UNCHANGED walkvars
    /\ UNCHANGED downvars
    /\ LET cur == Seek(dictionary, cursor[1], cursor[2]) IN
        /\ cur[1] <= Len(dictionary)
        /\ cursor' = <<cur[1], cur[2] + 1>>
        /\ LET word == dictionary[cur[1]].word
               definition_token == dictionary[cur[1]].defn[cur[2]].tok
               natural == Recorded(strong, word, definition_token)
           IN  IF word = definition_token                       \* case 0
               THEN UNCHANGED <<pc, exception, strong, weak>>
               ELSE IF ~IsStrong(dictionary, word, definition_token)
               THEN /\ weak' = weak \cup {Canon(word, definition_token)}
                    /\ UNCHANGED <<pc, exception, strong>>       \* case 2
               ELSE IF K = 0 \/ definition_token \notin DOMAIN wordsToNum
               THEN /\ strong' = natural                        \* case 1
                    /\ UNCHANGED <<pc, exception, weak>>
               ELSE IF ArgPartition(embedding, embedding[wordsToNum[definition_token]], K) = {}
               THEN /\ strong' = natural
                    /\ Raise("ValueError", 318)
                    /\ UNCHANGED weak
               ELSE \E S \in ArgPartition(embedding, embedding[wordsToNum[definition_token]], K) :
                    IF S \subseteq DOMAIN numToWords
                    THEN /\ strong' = natural \cup
                                Synthesized(word, definition_token, S, numToWords)
                         /\ UNCHANGED <<pc, exception, weak>>
                    ELSE \* numToWords[index] on a row the second pass left
                         \* unfilled (line 323), after some of the others
                         /\ \E P \in SUBSET (S \cap DOMAIN numToWords) :
                              strong' = natural \cup
                                  Synthesized(word, definition_token, P, numToWords)
                         /\ Raise("KeyError", 323)
                         /\ UNCHANGED weak
    /\ UNCHANGED <<definition_fn, embedding_fn, K, nread, dictionary, uniq_words,
                   nb_word, nb_dims, valid_words, embedding, numToWords,
                   wordsToNum, out_files>>

(***************************************************************************)
(* generate_pairs, lines 338-357: write the two pair files, then print the *)
(* shares of strong and weak pairs.                                        *)
(***************************************************************************)
\* "{}-K{}.txt".format(fn, K) (lines 343-344)
OutName(fn, k) == <<fn, k>>

WritePairs ==
    /\ pc = "classify"
    /\ UNCHANGED walkvars
    /\ UNCHANGED downvars
    /\ Seek(dictionary, cursor[1], cursor[2])[1] > Len(dictionary)
    /\ out_files' = (OutName("strong-pairs", K) :> strong) @@
                    (OutName("weak-pairs", K) :> weak)
    /\ IF Cardinality(strong) + Cardinality(weak) = 0
       THEN Raise("ZeroDivisionError", 356)  \* len(strong)/total
       ELSE pc' = "done" /\ UNCHANGED exception
    /\ UNCHANGED <<definition_fn, embedding_fn, K, nread, dictionary, uniq_words,
                   nb_word, nb_dims, valid_words, embedding, numToWords,
                   wordsToNum, cursor, strong, weak>>

Next ==
    \/ ReadDefinition
    \/ LoadDecision
    \/ LoadCount
    \/ LoadFill
    \/ Classify
    \/ WritePairs

Spec == Init /\ [][Next]_vars

SpecVec == InitVec /\ [][Next]_vars

(***************************************************************************)
(* edge_generator.py: the biased random walk sampler.                      *)
(*                                                                         *)
(* Floats are held as exact fractions <<numerator, denominator>> with a    *)
(* positive denominator, in lowest terms.                                  *)
(***************************************************************************)
Abs(x) == IF x < 0 THEN -x ELSE x

Rat(a, b) ==
    LET g == Gcd(Abs(a), Abs(b))
        s == IF b < 0 THEN -1 ELSE 1
    IN  <<(s * a) \div g, (s * b) \div g>>

RatOf(k) == <<k, 1>>
RatMul(x, y) == Rat(x[1] * y[1], x[2] * y[2])
RatAdd(x, y) == Rat(x[1] * y[2] + y[1] * x[2], x[2] * y[2])
RatLess(x, y) == x[1] * y[2] < y[1] * x[2]
RatLeq(x, y) == x[1] * y[2] <= y[1] * x[2]
RatAbs(x) == <<Abs(x[1]), x[2]>>

\* sum(ws) (line 66), np.sum(ws) (line 147)
RECURSIVE RatSum(_)
RatSum(ws) == IF ws = <<>> THEN RatOf(0) ELSE RatAdd(RatSum(SubSeq(ws, 1, Len(ws) - 1)), ws[Len(ws)])

\* 1.0 / x for x # 0 (lines 21-22, 98-99)
Inverse(x) == Rat(1, x)

(***************************************************************************)
(* Python values whose type the code compares: last_node is the int 0      *)
(* (lines 40, 117) or a node, and the nodes read_edgelist builds without   *)
(* a nodetype are the strings of the file (line 14).                       *)
(***************************************************************************)
PyInt(k) == [type |-> "int", val |-> <<k>>]
PyStr(s) == [type |-> "str", val |-> s]

\* a == b: values of different types are never equal
PyEq(a, b) == a.type = b.type /\ a.val = b.val

(***************************************************************************)
(* load_graph (lines 12-16): nx.read_edgelist on the lines "u,v,w" of the  *)
(* input file, each held as <<u, v, w>>. The graph is nx.Graph's adjacency *)
(* dict, insertion-ordered: a sequence of [node, adj], adj a sequence of   *)
(* [nbr, weight].                                                          *)
(***************************************************************************)
GNodes(g) == {g[x].node : x \in 1..Len(g)}

\* list(G.nodes()) (line 16)
NodeList(g) == [x \in 1..Len(g) |-> g[x].node]

\* G._adj[u], for u in G
AdjOf(g, u) == g[CHOOSE x \in 1..Len(g) : g[x].node = u].adj

AddNode(g, u) == IF u \in GNodes(g) THEN g ELSE Append(g, [node |-> u, adj |-> <<>>])

\* G._adj[u][v] = {"weight": w}: a known neighbor keeps its place
SetNbr(g, u, v, w) ==
    LET a == AdjOf(g, u)
        b == IF \E y \in 1..Len(a) : a[y].nbr = v
             THEN [y \in 1..Len(a) |-> IF a[y].nbr = v THEN [nbr |-> v, weight |-> w] ELSE a[y]]
             ELSE Append(a, [nbr |-> v, weight |-> w])
    IN  [x \in 1..Len(g) |-> IF g[x].node = u THEN [node |-> u, adj |-> b] ELSE g[x]]

\* faulty variant: the graph is directed, v gets no adjacency entry for u
AddArc(g, u, v, w) == SetNbr(AddNode(AddNode(g, u), v), u, v, w)

\* G.add_edge(u, v, weight=w) of an undirected graph
AddEdge(g, u, v, w) == SetNbr(SetNbr(AddNode(AddNode(g, u), v), u, v, w), v, u, w)

RECURSIVE ReadEdgelist(_)
ReadEdgelist(lines) ==
    IF lines = <<>> THEN <<>>
    ELSE LET e == lines[Len(lines)]
         IN  AddEdge(ReadEdgelist(SubSeq(lines, 1, Len(lines) - 1)), e[1], e[2], e[3])

\* list(G.neighbors(u)) (lines 49, 128)
Neighbors(g, u) == LET a == AdjOf(g, u) IN [y \in 1..Len(a) |-> a[y].nbr]

\* G.edges[(u, v)]['weight'] (lines 55, 134), v a neighbor of u
EdgeWeight(g, u, v) ==
    LET a == AdjOf(g, u) IN RatOf(a[CHOOSE y \in 1..Len(a) : a[y].nbr = v].weight)

\* G.has_edge(u, v) (lines 58, 137): False when u is no node of G; no node
\* equals the int 0, the nodes being strings
HasEdge(g, u, v) ==
    /\ u.type = "str"
    /\ u.val \in GNodes(g)
    /\ v \in Range(Neighbors(g, u.val))

(***************************************************************************)
(* The transition weights of one step (lines 53-61, 132-140), p and q      *)
(* being the inverses taken at lines 21-22, 98-99.                         *)
(***************************************************************************)
\* faulty variant: p and q change places
WeightSwapped(g, current_node, last_node, nbr, p, q) ==
    LET weight == EdgeWeight(g, current_node, nbr)
    IN  IF PyEq(PyStr(nbr), last_node) THEN RatMul(q, weight)
        ELSE IF HasEdge(g, last_node, nbr) THEN weight
        ELSE RatMul(p, weight)

AdjustedWeight(g, current_node, last_node, nbr, p, q) ==
    LET weight == EdgeWeight(g, current_node, nbr)
    IN  IF PyEq(PyStr(nbr), last_node) THEN RatMul(p, weight)
        ELSE IF HasEdge(g, last_node, nbr) THEN weight
        ELSE RatMul(q, weight)

NeighborsWeight(g, current_node, last_node, p, q) ==
    LET neighbors == Neighbors(g, current_node)
    IN  [y \in 1..Len(neighbors) |->
             AdjustedWeight(g, current_node, last_node, neighbors[y], p, q)]

\* np.abs(neighbors_weight) (line 146)
AbsWeights(ws) == [y \in 1..Len(ws) |-> RatAbs(ws[y])]

(***************************************************************************)
(* random.choices(population, weights, k=1) (lines 71, 152):               *)
(* bisect(cum_weights, random() * total, 0, n - 1) with random() in [0,1). *)
(***************************************************************************)
\* list(accumulate(weights))
Accumulate(ws) == [y \in 1..Len(ws) |-> RatSum(SubSeq(ws, 1, y))]

\* bisect_right(a, x, lo, hi), indices counted from 0
RECURSIVE Bisect(_, _, _, _)
Bisect(a, x, lo, hi) ==
    IF lo < hi
    THEN LET mid == (lo + hi) \div 2
         IN  IF RatLess(x, a[mid + 1]) THEN Bisect(a, x, lo, mid)
             ELSE Bisect(a, x, mid + 1, hi)
    ELSE lo

\* the positions (from 1) random.choices can return, for a total > 0: the
\* search compares x only with cumulated weights, so one x for every
\* interval they cut [0, total) into
Choices(ws) ==
    LET cum == Accumulate(ws)
        total == cum[Len(ws)]
        xs == {RatOf(0)} \cup {c \in Range(cum) : RatLess(RatOf(0), c) /\ RatLess(c, total)}
    IN  {Bisect(cum, x, 0, Len(ws) - 1) + 1 : x \in xs}

\* the positions the normal walk can pick (lines 66-71): random.choice over
\* all the neighbors when the weights sum to <= 0
PickNormal(ws) ==
    IF RatLeq(RatSum(ws), RatOf(0)) THEN 1..Len(ws) ELSE Choices(ws)

\* faulty variant: the polar walk tests and draws by the signed weights
PickSigned(ws) ==
    IF RatLeq(RatSum(ws), RatOf(0)) THEN 1..Len(ws) ELSE Choices(ws)

\* the positions the polar walk can pick (lines 146-152): random.randint
\* over all the positions when the absolute weights sum to <= 0
PickPolar(ws) ==
    IF RatLeq(RatSum(AbsWeights(ws)), RatOf(0)) THEN 1..Len(ws) ELSE Choices(AbsWeights(ws))

(***************************************************************************)
(* The polar walk's sign flag and its two rows (lines 154-167), the value  *)
(* last_node starts from (lines 40, 117) and the cell numpy stores for a   *)
(* node (lines 46, 73, 122, 162, 166).                                     *)
(***************************************************************************)
\* "if neighbors_weight[current_idx] < 0: current_node_positive *= -1"
Flipped(current_node_positive, w) ==
    IF RatLess(w, RatOf(0)) THEN -current_node_positive ELSE current_node_positive

\* faulty variant: the two rows change places
TrackRowSwapped(current_node_positive, n, n_samples) ==
    IF current_node_positive > 0 THEN n_samples + n ELSE n

\* the row written: n under a positive flag, n_samples + n otherwise
TrackRow(current_node_positive, n, n_samples) ==
    IF current_node_positive > 0 THEN n ELSE n_samples + n

\* faulty variant: both rows are written at the index i of the step
TrackColByStep(w, current_node_positive) == w.i

\* the column written: positive_count under a positive flag (line 162),
\* negative_count otherwise (line 166)
TrackCol(w, current_node_positive) ==
    IF current_node_positive > 0 THEN w.positive_count ELSE w.negative_count

\* faulty variant: last_node starts as the node "0"
LastNodeZeroStr == PyStr(d0)

\* "last_node = 0"
InitialLastNode == PyInt(0)

\* faulty variant: the cell holds the successor of the node's number
CellOffByOne(node) == NumVal(node) + 1

\* an int array cell assigned a str holds int(str); ValueError unless IntOk
CellOf(node) == NumVal(node)

(***************************************************************************)
(* Inputs of edge_generator.py.                                            *)
(***************************************************************************)
\* the edge list files
GF_Empty == <<>>
GF_AB == << <<d1, d2, 1>> >>
GF_Zero == << <<d1, d2, 0>> >>
GF_Minus == << <<d1, d2, -1>> >>
GF_Loop == << <<d1, d1, 1>> >>
GF_Triangle == << <<d0, d1, 1>>, <<d1, d2, 1>>, <<d2, d0, 1>> >>
GF_Path == << <<d0, d1, 1>>, <<d1, d2, -1>> >>
GF_Cancel == << <<d1, d2, 1>>, <<d1, d0, -1>> >>
GF_ZeroMinus == << <<d1, d2, 0>>, <<d1, d0, -1>> >>
GF_Words == << <<cat, feline, 1>> >>
GraphFiles ==
    {GF_Empty, GF_AB, GF_Zero, GF_Minus, GF_Loop, GF_Triangle, GF_Path,
     GF_Cancel, GF_ZeroMinus, GF_Words}

\* --p and --q, as <<p, q>>
Biases == {<<2, 1>>, <<1, -1>>, <<0, 1>>, <<2, 0>>}

\* --output_directory: a directory that exists and one that does not
Directories == {"./path/"}
OutputDirectories == {"./path/", "./nopath/"}

RunModes == {"normal", "polar"}

\* the locals of a worker process that has not started
Unstarted ==
    [pc |-> "unstarted", exception |-> NoException, p |-> RatOf(0), q |-> RatOf(0),
     G |-> <<>>, node_list |-> <<>>, n_samples |-> 0, output_array |-> EmptyMap,
     indices |-> <<>>, n |-> 0, i |-> 0, last_node |-> InitialLastNode,
     current_node |-> <<>>, neighbors_weight |-> <<>>,
     current_node_positive |-> 1, positive_count |-> 0, negative_count |-> 0]

\* generate_weak_strong_pairs.py is not running
GeneratorOff ==
    /\ pc = "off"
    /\ exception = NoException
    /\ definition_fn = <<>>
    /\ embedding_fn = NoVecName
    /\ K = 0
    /\ nread = 0
    /\ dictionary = <<>>
    /\ uniq_words = {}
    /\ nb_word = 0
    /\ nb_dims = 0
    /\ valid_words = <<>>
    /\ embedding = EmptyMap
    /\ numToWords = EmptyMap
    /\ wordsToNum = EmptyMap
    /\ cursor = <<1, 1>>
    /\ strong = {}
    /\ weak = {}
    /\ out_files = EmptyMap

\* the state after parse_args (lines 191-215)
Main(a) ==
    /\ GeneratorOff
    /\ DownloaderOff
    /\ args = a
    /\ main_pc = "start"
    /\ processes = 0
    /\ joined = 0
    /\ worker = [r \in 0..(a.num_processes - 1) |-> Unstarted]
    /\ shards = EmptyMap

\* runs of one worker over all the graphs and parameters; the missing
\* output directory is tried with walks of one node
InitWalk ==
    \E f \in GraphFiles, m \in RunModes, b \in Biases,
       l \in 1..MaxLength, s \in {-1} \cup (0..MaxSamples), d \in OutputDirectories :
        /\ d \notin Directories => l = 1
        /\ Main([input_file |-> f, run_mode |-> m, p |-> b[1], q |-> b[2], max_length |-> l,
              n_samples |-> s, num_processes |-> 1, output_directory |-> d,
              output_name |-> "_edge.npy"])

\* runs of several workers over a few graphs and parameters
InitRun ==
    \E f \in {GF_AB, GF_Words}, m \in RunModes, vp \in {0, 2},
       s \in 1..MaxSamples, c \in 1..MaxProcesses, d \in OutputDirectories :
        Main([input_file |-> f, run_mode |-> m, p |-> vp, q |-> 1, max_length |-> 2,
              n_samples |-> s, num_processes |-> c, output_directory |-> d,
              output_name |-> "_edge.npy"])

(***************************************************************************)
(* __main__, lines 225-236: start the workers, join them, report.          *)
(***************************************************************************)
MainStart ==
    /\ main_pc = "start"
    /\ IF processes < args.num_processes
       THEN /\ worker' = [worker EXCEPT ![processes].pc = "load"]
            /\ processes' = processes + 1
            /\ UNCHANGED main_pc
       ELSE /\ main_pc' = "join"
            /\ UNCHANGED <<worker, processes>>
    /\ UNCHANGED <<args, joined, shards>>
    /\ UNCHANGED pairvars
    /\ UNCHANGED downvars

\* p.join() returns once the process has ended, however it ended
Ended(r) == worker[r].pc \in {"exited", "raised"}

MainJoin ==
    /\ main_pc = "join"
    /\ IF joined < args.num_processes
       THEN /\ Ended(joined)
            /\ joined' = joined + 1
            /\ UNCHANGED main_pc
       ELSE /\ main_pc' = "done"   \* "Task completed in ..."
            /\ UNCHANGED joined
    /\ UNCHANGED <<args, processes, worker, shards>>
    /\ UNCHANGED pairvars
    /\ UNCHANGED downvars

(***************************************************************************)
(* output_edges / output_polar_edges (args, index): the worker process.    *)
(***************************************************************************)
Polar == args.run_mode = "polar"

\* a line of output_edges, or its counterpart in output_polar_edges
Line(normal, polar) == IF Polar THEN polar ELSE normal

\* the worker ends on an exception no handler catches
Raised(w, e, ln) == [w EXCEPT !.pc = "raised", !.exception = [type |-> e, line |-> ln]]

\* lines 20-37 / 97-114
WorkerLoad(r) ==
    /\ worker[r].pc = "load"
    /\ LET w == worker[r]
           g == ReadEdgelist(args.input_file)
           ns == IF args.n_samples = -1 THEN Len(g) ELSE args.n_samples
           rows == IF Polar THEN 2 * ns ELSE ns
       IN  worker' = [worker EXCEPT ![r] =
               IF args.p = 0 THEN Raised(w, "ZeroDivisionError", Line(21, 98))
               ELSE IF args.q = 0 THEN Raised(w, "ZeroDivisionError", Line(22, 99))
               ELSE [w EXCEPT !.pc = "walk", !.p = Inverse(args.p), !.q = Inverse(args.q),
                              !.G = g, !.node_list = NodeList(g), !.n_samples = ns,
                              !.output_array = Zeros(rows, args.max_length)]]
    /\ UNCHANGED <<args, main_pc, processes, joined, shards>>
    /\ UNCHANGED pairvars
    /\ UNCHANGED downvars

\* faulty variant: every start node is drawn by random.choice
StartAnywhere(w) == 0..(Len(w.node_list) - 1)

\* the start nodes walk n can take (lines 42-45 / 118-121): the next entry
\* of the permutation "indices", whose entries are drawn as they are read,
\* or random.choice(node_list)
StartIndexes(w) ==
    IF w.n_samples = Len(w.node_list)
    THEN (0..(w.n_samples - 1)) \ Range(w.indices)
    ELSE 0..(Len(w.node_list) - 1)

\* the top of "for n in range(0, n_samples)" and lines 40-46 / 117-125
BeginWalk(r) ==
    /\ worker[r].pc = "walk"
    /\ LET w == worker[r] IN
        IF w.n = w.n_samples
        THEN worker' = [worker EXCEPT ![r].pc = "save"]
        ELSE IF StartIndexes(w) = {}
        THEN \* random.choice on an empty node_list
             worker' = [worker EXCEPT ![r] = Raised(w, "IndexError", Line(45, 121))]
        ELSE \E x \in StartIndexes(w) :
                LET current_node == w.node_list[x + 1]
                    w1 == [w EXCEPT !.last_node = InitialLastNode,
                                    !.current_node = current_node,
                                    !.indices = IF w.n_samples = Len(w.node_list)
                                                THEN Append(@, x) ELSE @]
                IN  worker' = [worker EXCEPT ![r] =
                        IF ~IntOk(current_node)
                        THEN Raised(w1, "ValueError", Line(46, 122))
                        ELSE [w1 EXCEPT !.output_array[w.n][1] = CellOf(current_node),
                                        !.current_node_positive = 1,
                                        !.positive_count = 1,
                                        !.negative_count = 0,
                                        !.i = 1,
                                        !.n = IF args.max_length > 1 THEN @ ELSE @ + 1,
                                        !.pc = IF args.max_length > 1 THEN "step" ELSE "walk"]]
    /\ UNCHANGED <<args, main_pc, processes, joined, shards>>
    /\ UNCHANGED pairvars
    /\ UNCHANGED downvars

\* the positions the draw of a step can return
Pick(ws) == IF Polar THEN PickPolar(ws) ELSE PickNormal(ws)

\* the end of one iteration of "for i in range(1, max_length)": on to the
\* next i, or to the next n after the last
Advance(w) ==
    IF w.i + 1 < args.max_length
    THEN [w EXCEPT !.i = @ + 1]
    ELSE [w EXCEPT !.n = @ + 1, !.pc = "walk"]

\* one iteration of the inner loop, lines 48-73 / 127-167
Step(r) ==
    /\ worker[r].pc = "step"
    /\ LET w == worker[r]
           neighbors == Neighbors(w.G, w.current_node)
           ws == NeighborsWeight(w.G, w.current_node, w.last_node, w.p, w.q)
       IN  IF neighbors = <<>>
           THEN \* break
                worker' = [worker EXCEPT ![r] = [w EXCEPT !.n = @ + 1, !.pc = "walk"]]
           ELSE \E x \in Pick(ws) :
                LET current_node == neighbors[x]
                    sign == IF Polar THEN Flipped(w.current_node_positive, ws[x])
                            ELSE w.current_node_positive
                    row == IF Polar THEN TrackRow(sign, w.n, w.n_samples) ELSE w.n
                    col == IF Polar THEN TrackCol(w, sign) ELSE w.i
                    w1 == [w EXCEPT !.neighbors_weight = ws,
                                    !.last_node = PyStr(w.current_node),
                                    !.current_node = current_node,
                                    !.current_node_positive = sign]
                IN  worker' = [worker EXCEPT ![r] =
                        IF ~IntOk(current_node)
                        THEN Raised(w1, "ValueError",
                                    Line(73, IF sign > 0 THEN 162 ELSE 166))
                        ELSE Advance(
                            [w1 EXCEPT !.output_array[row][col + 1] = CellOf(current_node),
                                       !.positive_count =
                                           IF Polar /\ sign > 0 THEN @ + 1 ELSE @,
                                       !.negative_count =
                                           IF Polar /\ sign < 0 THEN @ + 1 ELSE @])]
    /\ UNCHANGED <<args, main_pc, processes, joined, shards>>
    /\ UNCHANGED pairvars
    /\ UNCHANGED downvars

\* args.output_directory + str(index) + args.output_name (lines 88, 182)
ShardName(index) == <<args.output_directory, index, args.output_name>>

\* lines 87-93 / 181-187: open() fails when the directory is missing
Save(r) ==
    /\ worker[r].pc = "save"
    /\ IF args.output_directory \in Directories
       THEN /\ shards' = [f \in DOMAIN shards \cup {ShardName(r)} |->
                             IF f = ShardName(r) THEN worker[r].output_array ELSE shards[f]]
            /\ worker' = [worker EXCEPT ![r].pc = "exited"]
       ELSE /\ worker' = [worker EXCEPT ![r] =
                             Raised(worker[r], "FileNotFoundError", Line(88, 182))]
            /\ UNCHANGED shards
    /\ UNCHANGED <<args, main_pc, processes, joined>>
    /\ UNCHANGED pairvars
    /\ UNCHANGED downvars

NextWalk ==
    \/ MainStart
    \/ MainJoin
    \/ \E r \in DOMAIN worker : WorkerLoad(r)
    \/ \E r \in DOMAIN worker : BeginWalk(r)
    \/ \E r \in DOMAIN worker : Step(r)
    \/ \E r \in DOMAIN worker : Save(r)

SpecWalk == InitWalk /\ [][NextWalk]_vars

SpecRun == InitRun /\ [][NextWalk]_vars

(***************************************************************************)
(* download_definitions.py: the threaded definition downloader, with one   *)
(* dictionary. main fills the word queue, starts thread_writer and the     *)
(* ThreadDown threads, polls the queues, sets exitFlag and joins           *)
(* thread_writer only.                                                     *)
(***************************************************************************)
\* a thread at the top of its run loop
Started == [pc |-> "while", word |-> <<>>, taken |-> <<>>]

\* the ThreadDown threads
Downloaders == DOMAIN threads \ {0}

\* the queues Queue.put filled from the vocabulary, a set (lines 189-192,
\* 313-317): distinct words in any order
Vocabularies ==
    {v \in SeqsUpTo(Words, MaxVocabulary) : \A x, y \in 1..Len(v) : x # y => v[x] # v[y]}

\* the state when main enters its monitoring loop (line 355): the queue is
\* filled, every thread is started and none has run
InitDown ==
    \E v \in Vocabularies, threads_per_dict \in 1..MaxThreads :
        /\ GeneratorOff
        /\ SamplerOff
        /\ exitFlag = 0
        /\ queues = v
        /\ queue_msg = <<>>
        /\ threads = [t \in 0..threads_per_dict |-> Started]
        /\ down_pc = "poll"

\* ThreadDown.run, line 60: "while not exitFlag"
DownWhile(t) ==
    /\ t \in Downloaders
    /\ threads[t].pc = "while"
    /\ threads' = [threads EXCEPT ![t].pc = IF exitFlag = 0 THEN "if" ELSE "left"]
    /\ UNCHANGED <<exitFlag, queues, queue_msg, down_pc>>
    /\ UNCHANGED <<pairvars, walkvars>>

\* line 61: "if not self.data_queue.empty()"
DownIfNotEmpty(t) ==
    /\ t \in Downloaders
    /\ threads[t].pc = "if"
    /\ threads' = [threads EXCEPT ![t].pc = IF queues # <<>> THEN "get" ELSE "while"]
    /\ UNCHANGED <<exitFlag, queues, queue_msg, down_pc>>
    /\ UNCHANGED <<pairvars, walkvars>>

\* line 62: "word = self.data_queue.get()", which blocks, with no timeout,
\* for as long as the queue is empty
DownGet(t) ==
    /\ t \in Downloaders
    /\ threads[t].pc = "get"
    /\ queues # <<>>
    /\ threads' = [threads EXCEPT ![t].pc = "download",
                                  ![t].word = Head(queues),
                                  ![t].taken = Append(@, Head(queues))]
    /\ queues' = Tail(queues)
    /\ UNCHANGED <<exitFlag, queue_msg, down_pc>>
    /\ UNCHANGED <<pairvars, walkvars>>

\* lines 63-133: the download; a definition found is put on the message
\* queue (line 109), anything else (not found, empty, an exception) is not
DownDownload(t) ==
    /\ t \in Downloaders
    /\ threads[t].pc = "download"
    /\ \E found \in BOOLEAN :
           queue_msg' = IF found THEN Append(queue_msg, threads[t].word) ELSE queue_msg
    /\ threads' = [threads EXCEPT ![t].pc = "while"]
    /\ UNCHANGED <<exitFlag, queues, down_pc>>
    /\ UNCHANGED <<pairvars, walkvars>>

\* ThreadWrite.run, lines 147-156: the same loop on the message queue,
\* which has no other reader
WriteLoop ==
    /\ 0 \in DOMAIN threads
    /\ \/ /\ threads[0].pc = "while"
          /\ threads' = [threads EXCEPT ![0].pc = IF exitFlag = 0 THEN "if" ELSE "drain"]
          /\ UNCHANGED queue_msg
       \/ /\ threads[0].pc = "if"
          /\ threads' = [threads EXCEPT ![0].pc = IF queue_msg # <<>> THEN "get" ELSE "while"]
          /\ UNCHANGED queue_msg
       \/ /\ threads[0].pc = "get"
          /\ queue_msg # <<>>
          /\ threads' = [threads EXCEPT ![0].pc = "while",
                                        ![0].taken = Append(@, Head(queue_msg))]
          /\ queue_msg' = Tail(queue_msg)
    /\ UNCHANGED <<exitFlag, queues, down_pc>>
    /\ UNCHANGED <<pairvars, walkvars>>

\* lines 158-175: "msg_queue.get(True, 5)" until it times out on an empty
\* queue
WriteDrain ==
    /\ 0 \in DOMAIN threads
    /\ threads[0].pc = "drain"
    /\ IF queue_msg # <<>>
       THEN /\ threads' = [threads EXCEPT ![0].taken = Append(@, Head(queue_msg))]
            /\ queue_msg' = Tail(queue_msg)
       ELSE /\ threads' = [threads EXCEPT ![0].pc = "left"]
            /\ UNCHANGED queue_msg
    /\ UNCHANGED <<exitFlag, queues, down_pc>>
    /\ UNCHANGED <<pairvars, walkvars>>

\* main, lines 355-360: leave the monitoring loop when every queue is empty
\* (max_definitions is None)
DownPoll ==
    /\ down_pc = "poll"
    /\ queues = <<>> /\ queue_msg = <<>>
    /\ down_pc' = "set"
    /\ UNCHANGED <<exitFlag, queues, queue_msg, threads>>
    /\ UNCHANGED <<pairvars, walkvars>>

\* line 386: "exitFlag = 1"
DownSetExitFlag ==
    /\ down_pc = "set"
    /\ exitFlag' = 1
    /\ down_pc' = "join"
    /\ UNCHANGED <<queues, queue_msg, threads>>
    /\ UNCHANGED <<pairvars, walkvars>>

\* line 391: "thread_writer.join()", the only join
DownJoin ==
    /\ down_pc = "join"
    /\ threads[0].pc = "left"
    /\ down_pc' = "done"
    /\ UNCHANGED <<exitFlag, queues, queue_msg, threads>>
    /\ UNCHANGED <<pairvars, walkvars>>

NextDown ==
    \/ DownPoll
    \/ DownSetExitFlag
    \/ DownJoin
    \/ WriteLoop
    \/ WriteDrain
    \/ \E t \in DOMAIN threads : DownWhile(t)
    \/ \E t \in DOMAIN threads : DownIfNotEmpty(t)
    \/ \E t \in DOMAIN threads : DownGet(t)
    \/ \E t \in DOMAIN threads : DownDownload(t)

\* every thread that can run does run, and so does main
FairDown ==
    /\ WF_vars(DownPoll \/ DownSetExitFlag \/ DownJoin)
    /\ WF_vars(WriteLoop \/ WriteDrain)
    /\ \A t \in 1..MaxThreads :
           WF_vars(DownWhile(t) \/ DownIfNotEmpty(t) \/ DownGet(t) \/ DownDownload(t))

SpecDown == InitDown /\ [][NextDown]_vars /\ FairDown

(***************************************************************************)
(* Properties of generate_pairs and loadEmbedding.                         *)
(***************************************************************************)
\* the definition tokens of w, {} for a word without an entry
Tokens(w) ==
    IF w \in DictKeys(dictionary) THEN CounterKeys(DictGet(dictionary, w)) ELSE {}

\* a and b define each other
Mutual(a, b) == b \in Tokens(a) /\ a \in Tokens(b)

\* the pair of a and b, smaller word first
Ordered(a, b) == IF StrLess(b, a) THEN <<b, a>> ELSE <<a, b>>

\* the strong pairs of the definitions alone
NaturalStrong ==
    {Ordered(p[1], p[2]) : p \in {q \in Words \X Words : q[1] # q[2] /\ Mutual(q[1], q[2])}}

\* the classification loop is over and the pair files are written
Written == DOMAIN out_files # {}

\* loadEmbedding was called and has returned
Returned ==
    /\ K > 0 /\ embedding_fn.given
    /\ \/ pc \in {"classify", "done"}
       \/ pc = "raised" /\ exception.line > 206

\* C1: after generate_pairs, for any K, every pair (W,T), W # T, T a token
\* of W's definition, is in exactly one of the strong and the weak set, and
\* no pair is in both.
C1_ExactlyOneSet ==
    Written =>
        /\ strong \cap weak = {}
        /\ \A w \in Words : \A t \in Tokens(w) \ {w} :
              (Ordered(w, t) \in strong) # (Ordered(w, t) \in weak)

\* C2: every pair in the strong or the weak set, natural or synthesized, is
\* in canonical order (first word <= second word), so that no set holds both
\* (a,b) and (b,a) for a # b.
C2_CanonicalOrder ==
    \A p \in strong \cup weak :
        /\ ~StrLess(p[2], p[1])
        /\ p[1] # p[2] => <<p[2], p[1]>> \notin strong \cup weak

\* a run with K > 0 that added a synthesized pair, a weak pair, and a pair
\* read as (word, token) with the token the smaller word
C2_Witness ==
    /\ pc = "done" /\ K > 0
    /\ strong \ NaturalStrong # {}
    /\ weak # {}
    /\ \E w \in Words : \E t \in Tokens(w) : StrLess(t, w) /\ <<t, w>> \in strong

\* C3: with K = 0, for distinct words A and B, the canonical pair (A,B) is
\* strong iff B is a token of A's definition and A a token of B's; a pair
\* where only one direction holds is weak.
C3_StrongIffMutual ==
    (Written /\ K = 0) =>
        \A a, b \in Words : a # b =>
            /\ Ordered(a, b) \in strong <=> Mutual(a, b)
            /\ (b \in Tokens(a) /\ ~Mutual(a, b)) => Ordered(a, b) \in weak

C3_Witness ==
    /\ Written /\ K = 0
    /\ \E a, b \in Words : a # b /\ Mutual(a, b)
    /\ \E a, b \in Words : a # b /\ b \in Tokens(a) /\ ~Mutual(a, b)


\* cat -> {feline, animal}, feline -> {cat}, in any order of lines and tokens
Scenario1 ==
    { <<<<cat, feline, animal>>, <<feline, cat>>>>,
      <<<<cat, animal, feline>>, <<feline, cat>>>>,
      <<<<feline, cat>>, <<cat, feline, animal>>>>,
      <<<<feline, cat>>, <<cat, animal, feline>>>> }

\* C4: for the definitions cat -> {feline, animal} and feline -> {cat} with
\* K = 0, the run ends with exactly the strong set {(cat,feline)} and the
\* weak set {(animal,cat)}, which are the pair files written.
C4_Scenario1 ==
    (definition_fn \in Scenario1 /\ K = 0 /\ pc \in {"done", "raised"}) =>
        /\ pc = "done"
        /\ strong = {<<cat, feline>>}
        /\ weak = {<<animal, cat>>}
        /\ out_files = (<<"strong-pairs", 0>> :> {<<cat, feline>>}) @@
                       (<<"weak-pairs", 0>> :> {<<animal, cat>>})

C4_Witness == definition_fn \in Scenario1 /\ K = 0 /\ pc = "done"

\* C5: with K = 0 augmentation is a no-op: no embedding file is opened,
\* whatever file name is given, and the strong set is the natural one.
C5_NoAugmentation ==
    K = 0 =>
        /\ pc \notin {"pass1", "pass2"}
        /\ exception.line \notin 37..206
        /\ embedding = EmptyMap /\ wordsToNum = EmptyMap /\ numToWords = EmptyMap
        /\ strong \subseteq NaturalStrong
        /\ Written => strong = NaturalStrong

C5_Witness ==
    /\ K = 0 /\ embedding_fn = VecAbsent /\ pc = "done"
    /\ <<cat, feline>> \in strong

\* no line of the vector file gives a row: none has a vocabulary word
\* followed by values that are all numeric
NoValidRow(ls) ==
    \A i \in 1..Len(ls) :
        ~(Len(ls[i]) > 1 /\ ls[i][1] \in uniq_words /\ AllFloat(ls[i]) /\ ~(i = 1 /\ IsHeader(ls[i])))

\* C6: when K > 0 and the embedding file is absent, empty, or yields zero
\* valid rows, generate_pairs does not abort: no exception leaves the
\* loading or the augmentation, and the strong set written is the natural
\* one.
C6_DegradesToNatural ==
    (K > 0 /\ embedding_fn.given /\ nread = Len(definition_fn) /\
     (~embedding_fn.exists \/ embedding_fn.lines = <<>> \/ NoValidRow(embedding_fn.lines))) =>
        /\ exception.line \notin (37..206) \cup (243..334)
        /\ Written => strong = NaturalStrong

\* C7: for a natural strong pair (W,T) whose token T has an embedding row,
\* the augmentation step adds at most K pairs besides (W,T), none of them by
\* pairing W with T's own row, and does not fail when the index holds fewer
\* than K+1 rows, nor when rows tie with T's similarity score.
C7_AtMostKNeighbors ==
    [][ (pc = "classify" /\ K > 0 /\ strong' # strong) =>
          LET cur == Seek(dictionary, cursor[1], cursor[2])
              W == dictionary[cur[1]].word
              T == dictionary[cur[1]].defn[cur[2]].tok
              added == (strong' \ strong) \ {Ordered(W, T)}
          IN  /\ exception' = NoException
              /\ Cardinality(added) <= K
              /\ \A p \in added : W \in {p[1], p[2]} /\ T \notin ({p[1], p[2]} \ {W})
      ]_vars

\* C8: after loadEmbedding returns, numToWords and wordsToNum are mutually
\* inverse bijections between the row indices 0..N-1 of the matrix and the
\* loaded words, also when a word stands on more than one line of the file.
C8_MutuallyInverse ==
    Returned =>
        /\ DOMAIN numToWords = DOMAIN embedding
        /\ \A i \in DOMAIN numToWords :
              numToWords[i] \in DOMAIN wordsToNum /\ wordsToNum[numToWords[i]] = i
        /\ \A w \in DOMAIN wordsToNum :
              wordsToNum[w] \in DOMAIN numToWords /\ numToWords[wordsToNum[w]] = w

\* some line of the vector file has a value that is not numeric
HasBadLine(ls) == \E i \in 1..Len(ls) : Len(ls[i]) > 1 /\ ~AllFloat(ls[i])

\* C9: loadEmbedding never aborts on a bad line: a line whose values are
\* not all numeric is skipped, every other line (a vocabulary word with
\* numeric values) is loaded, and only words of the vocabulary get a row.
C9_SkipsOnlyBadLines ==
    (K > 0 /\ embedding_fn.given /\ HasBadLine(embedding_fn.lines)) =>
        /\ ~(exception.type = "ValueError" /\ exception.line \in 37..206)
        /\ Returned =>
            /\ DOMAIN wordsToNum \subseteq uniq_words
            /\ \A i \in 1..Len(embedding_fn.lines) :
                 LET parts == embedding_fn.lines[i] IN
                 (Len(parts) > 1 /\ ~(i = 1 /\ IsHeader(parts))) =>
                    IF AllFloat(parts) /\ parts[1] \in uniq_words
                    THEN parts[1] \in DOMAIN wordsToNum
                    ELSE \/ parts[1] \notin DOMAIN wordsToNum
                         \/ \E j \in 1..Len(embedding_fn.lines) :
                              /\ j # i
                              /\ embedding_fn.lines[j] # <<>>
                              /\ embedding_fn.lines[j][1] = parts[1]

\* C10: while the definitions file is read, a malformed or empty record (a
\* blank line) is skipped without raising, and all other records are loaded.
C10_BlankRecordSkipped ==
    /\ ~(exception.type = "IndexError" /\ exception.line = 233)
    /\ pc # "read" =>
          \A i \in 1..Len(definition_fn) :
              definition_fn[i] # <<>> => definition_fn[i][1] \in DictKeys(dictionary)

\* the records of word w among the lines read so far
RecordsOf(w) == {r \in 1..nread : definition_fn[r] # <<>> /\ definition_fn[r][1] = w}

\* how often token t follows the entry word on record ar
Occurrences(ar, t) == Cardinality({j \in 2..Len(ar) : ar[j] = t})

\* how often Counter c has counted token t
CountOf(c, t) ==
    IF t \in CounterKeys(c) THEN c[CHOOSE x \in 1..Len(c) : c[x].tok = t].n ELSE 0

\* C11: when the definitions file holds several records for the same word,
\* the loaded definition of the word is the token multiset of its last
\* record (overwrite, not merge), and the vocabulary holds the tokens of
\* all the records; stated after every record read, the last included
\* (nothing writes dictionary or uniq_words after the reading loop).
C11_LastRecordWins ==
    pc = "read" =>
        /\ DictKeys(dictionary) = {w \in Words : RecordsOf(w) # {}}
        /\ \A w \in DictKeys(dictionary) :
               LET last == CHOOSE r \in RecordsOf(w) : \A r2 \in RecordsOf(w) : r2 <= r
               IN  \A t \in Words :
                       CountOf(DictGet(dictionary, w), t) = Occurrences(definition_fn[last], t)
        /\ \A r \in 1..nread : Range(definition_fn[r]) \subseteq uniq_words

C11_Witness ==
    /\ pc = "read"
    /\ nread = Len(definition_fn)
    /\ \E w \in Words :
           /\ Cardinality(RecordsOf(w)) > 1
           /\ \E r1, r2 \in RecordsOf(w), t \in Words :
                  /\ r1 < r2
                  /\ Occurrences(definition_fn[r1], t) > 0
                  /\ Occurrences(definition_fn[r2], t) = 0
                  /\ t \in uniq_words
                  /\ CountOf(DictGet(dictionary, w), t) = 0

(***************************************************************************)
(* Properties of the walk sampler, stated on the edge list file.           *)
(***************************************************************************)
\* the node ids of the edge list file
FileNodes == UNION {{args.input_file[x][1], args.input_file[x][2]} : x \in 1..Len(args.input_file)}

\* the lines of the file that join u and v
LinesJoining(u, v) ==
    {x \in 1..Len(args.input_file) :
        {args.input_file[x][1], args.input_file[x][2]} = {u, v}}

\* the base weight of the edge that joins u and v
FileWeight(u, v) ==
    args.input_file[CHOOSE x \in LinesJoining(u, v) : \A y \in LinesJoining(u, v) : y <= x][3]

\* worker r takes a step of its walk: it is in the inner loop, at a node
\* with neighbors
Stepping(r) ==
    /\ worker[r].pc = "step"
    /\ worker'[r] # worker[r]
    /\ \E v \in FileNodes : LinesJoining(worker[r].current_node, v) # {}

\* the adjusted weight the transition rule gives neighbor nbr: w/p at
\* distance 0, w at distance 1, w/q at distance 2
RuleWeight(last_node, current_node, nbr) ==
    LET w == FileWeight(current_node, nbr)
    IN  IF last_node = PyStr(nbr) THEN Rat(w, args.p)
        ELSE IF last_node.type = "str" /\ LinesJoining(last_node.val, nbr) # {} THEN RatOf(w)
        ELSE Rat(w, args.q)

\* C12: at every step of a walk, neighbor nbr of current_node with base
\* weight w gets the adjusted weight w/p if nbr is last_node, else w if an
\* edge joins last_node and nbr, else w/q; on the graph A--B of weight 1
\* with p = 2, current = A and last = B the weight to B is 1/2.
C12_AdjustedWeights ==
    [][\A r \in DOMAIN worker :
          Stepping(r) =>
              LET w == worker[r]
                  nbrs == Neighbors(w.G, w.current_node)
              IN  /\ Range(nbrs) = {v \in FileNodes : LinesJoining(w.current_node, v) # {}}
                  /\ worker'[r].neighbors_weight =
                         [y \in 1..Len(nbrs) |-> RuleWeight(w.last_node, w.current_node, nbrs[y])]
                  /\ (/\ args.input_file = GF_AB
                      /\ args.p = 2
                      /\ w.current_node = d1
                      /\ w.last_node = PyStr(d2))
                     => worker'[r].neighbors_weight = << <<1, 2>> >>]_vars

\* a step was taken from current = A with last = B on the graph A--B, p = 2
C12_Witness ==
    /\ args.input_file = GF_AB
    /\ args.p = 2
    /\ \E r \in DOMAIN worker :
           /\ worker[r].last_node = PyStr(d1)
           /\ worker[r].current_node = d2
           /\ worker[r].neighbors_weight = << <<1, 2>> >>
           /\ worker[r].i = 2

\* worker r is at the first step of a walk
AtFirstStep(r) == worker[r].pc = "step" /\ worker[r].i = 1

\* C13: in the initial state of every walk last_node matches no node: on
\* the first step no neighbor of the start node gets the distance-0 weight
\* w/p nor the distance-1 weight w, all get w/q, whatever the node ids of
\* the graph, a node with id 0 included.
C13_LastNodeMatchesNoNode ==
    \A r \in DOMAIN worker :
        AtFirstStep(r) =>
            LET w == worker[r] IN
            /\ \A v \in FileNodes :
                   /\ ~PyEq(PyStr(v), w.last_node)
                   /\ ~HasEdge(w.G, w.last_node, v)
            /\ \A v \in Range(Neighbors(w.G, w.current_node)) :
                   AdjustedWeight(w.G, w.current_node, w.last_node, v, w.p, w.q)
                       = Rat(FileWeight(w.current_node, v), args.q)

\* a walk is at its first step, at a neighbor of the node with id 0, with
\* p and q apart
C13_Witness ==
    \E r \in DOMAIN worker :
        /\ AtFirstStep(r)
        /\ d0 \in Range(Neighbors(worker[r].G, worker[r].current_node))
        /\ args.p = 2
        /\ args.q = 1

\* worker r is at a node with neighbors whose adjusted weights sum to <= 0
DegenerateWeights(r) ==
    LET w == worker[r] IN
    /\ w.pc = "step"
    /\ Neighbors(w.G, w.current_node) # <<>>
    /\ RatLeq(RatSum([y \in 1..Len(Neighbors(w.G, w.current_node)) |->
                         RuleWeight(w.last_node, w.current_node,
                                    Neighbors(w.G, w.current_node)[y])]), RatOf(0))

\* C14: when the adjusted weights of the neighbors of the current node sum
\* to <= 0 (zero weights, or signed weights cancelling) the sampler draws
\* among all the neighbors: each of them can be the next node of the walk,
\* and the walk goes on.
C14_UniformFallback ==
    \A r \in DOMAIN worker :
        DegenerateWeights(r) =>
            LET w == worker[r]
                nbrs == Neighbors(w.G, w.current_node)
            IN  {nbrs[x] : x \in Pick(NeighborsWeight(w.G, w.current_node, w.last_node, w.p, w.q))}
                    = Range(nbrs)

\* the cells numpy stores for the node ids of the edge list file
NodeCells == {NumVal(v) : v \in {u \in FileNodes : IntOk(u)}}

\* every cell of array a is the sentinel 0 or the cell of a node
CellsInRange(a) ==
    LET cells == NodeCells \cup {0}
    IN  \A x \in DOMAIN a : Range(a[x]) \subseteq cells

\* the slots of row x that worker record w has written so far, counted
\* from the positions of its loops
WrittenUpTo(w, x) ==
    IF w.pc \in {"unstarted", "load"} THEN 0
    ELSE IF x % (IF w.n_samples = 0 THEN 1 ELSE w.n_samples) # w.n \/ w.pc # "step"
    THEN args.max_length
    ELSE IF ~Polar THEN w.i
    ELSE IF x = w.n THEN w.positive_count ELSE w.negative_count

\* C15: in every state of a worker's run each cell of the walk buffer holds
\* the sentinel 0 or the id of a node of the loaded graph, and the slots
\* after the last written one of a row still hold 0, up to and in the
\* saved shard; so do the slots left by a walk that stops early.
C15_CellsAreNodes ==
    /\ \A r \in DOMAIN worker :
           LET w == worker[r] IN
           /\ CellsInRange(w.output_array)
           /\ \A x \in DOMAIN w.output_array :
                  /\ Len(w.output_array[x]) = args.max_length
                  /\ \A y \in 1..args.max_length :
                         y > WrittenUpTo(w, x) => w.output_array[x][y] = 0
                  /\ (x % w.n_samples > w.n \/ (x % w.n_samples = w.n /\ w.pc = "walk"))
                         => \A y \in 1..args.max_length : w.output_array[x][y] = 0
           /\ w.pc = "exited" =>
                  /\ ShardName(r) \in DOMAIN shards
                  /\ shards[ShardName(r)] = w.output_array
    /\ \A f \in DOMAIN shards : CellsInRange(shards[f])

\* a shard is saved with a row of written nodes followed by unwritten slots
C15_Witness ==
    \E r \in DOMAIN worker :
        /\ args.max_length = 3
        /\ worker[r].pc = "exited"
        /\ \E x \in DOMAIN shards[ShardName(r)] :
               /\ shards[ShardName(r)][x][1] # 0
               /\ shards[ShardName(r)][x][2] # 0
               /\ shards[ShardName(r)][x][args.max_length] = 0

\* worker r begins a walk: it takes its start node
Beginning(r) ==
    /\ worker[r].pc = "walk"
    /\ worker[r].n < worker[r].n_samples
    /\ worker'[r].exception = NoException
    /\ worker'[r] # worker[r]

\* C16: in a polar walk the sign flag starts positive and at every step is
\* flipped exactly once if the signed weight of the chosen edge is negative
\* and left as it is otherwise (weight 0 and the uniform fallback
\* included), for all configured p and q.
C16_SignFollowsEdge ==
    [][\A r \in DOMAIN worker :
          Polar =>
              /\ Beginning(r) => worker'[r].current_node_positive = 1
              /\ Stepping(r) =>
                     worker'[r].current_node_positive =
                         IF FileWeight(worker[r].current_node, worker'[r].current_node) < 0
                         THEN -worker[r].current_node_positive
                         ELSE worker[r].current_node_positive]_vars

\* C17: in polar mode the node chosen at a step is appended to the
\* positive-track row n of the seed if the sign flag, after the possible
\* flip of the step, is positive, otherwise to the negative-track row
\* n_samples + n of the same seed; the step writes no other cell.
C17_OneTrackPerStep ==
    [][\A r \in DOMAIN worker :
          (Polar /\ Stepping(r) /\ worker'[r].exception = NoException) =>
              LET w == worker[r]
                  node == worker'[r].current_node
                  positive == worker'[r].current_node_positive > 0
                  row == IF positive THEN w.n ELSE w.n_samples + w.n
                  col == IF positive THEN w.positive_count ELSE w.negative_count
              IN  /\ worker'[r].output_array =
                         [w.output_array EXCEPT ![row][col + 1] = NumVal(node)]
                  /\ worker'[r].positive_count = w.positive_count + (IF positive THEN 1 ELSE 0)
                  /\ worker'[r].negative_count = w.negative_count + (IF positive THEN 0 ELSE 1)]_vars

\* a polar walk has appended nodes to both rows of its seed
C17_Witness ==
    /\ Polar
    /\ args.max_length > 2
    /\ \E r \in DOMAIN worker :
           /\ worker[r].positive_count > 1
           /\ worker[r].negative_count > 0
           /\ \E x \in 0..(worker[r].n_samples - 1) :
                  /\ worker[r].output_array[x][2] # 0
                  /\ worker[r].output_array[worker[r].n_samples + x][1] # 0

\* the number of the walk whose record row x of worker record w holds
WalkOfRow(w, x) == x % w.n_samples

\* C18: every walk record written to an output shard is a row of exactly
\* max_length entries whose first element is the start node of its walk;
\* in polar mode this holds of both records of a seed, the positive track
\* and the negative track.
C18_RowsStartAtSeed ==
    \A r \in DOMAIN worker :
        worker[r].pc = "exited" =>
            LET w == worker[r]
                a == shards[ShardName(r)]
            IN  \A x \in DOMAIN a :
                    /\ Len(a[x]) = args.max_length
                    /\ a[x][1] = a[WalkOfRow(w, x)][1]
                    /\ a[x][1] \in NodeCells
                    /\ w.n_samples = Len(w.node_list) =>
                           a[x][1] = NumVal(w.node_list[w.indices[WalkOfRow(w, x) + 1] + 1])

\* C19: the n_samples walks are split across the worker processes: the
\* numbers of walks the num_processes workers of a run generate sum to
\* n_samples.
C19_WalksSumToNSamples ==
    (main_pc = "done" /\ \A r \in DOMAIN worker : worker[r].pc = "exited") =>
        LET RECURSIVE Walks(_)
            Walks(k) == IF k = 0 THEN 0 ELSE Walks(k - 1) + worker[k - 1].n
        IN  Walks(args.num_processes) =
                (IF args.n_samples = -1 THEN Cardinality(FileNodes) ELSE args.n_samples)

\* worker r has been started and has not ended
Running(r) == worker[r].pc \in {"load", "walk", "step", "save"}

\* C20: in every interleaving each worker writes exactly one output
\* artifact, named by its own index so that no two workers write the same
\* file; the main process passes its final join only after every worker
\* has written its artifact and exited; and no worker waits on another:
\* a running worker can always take its next step.
C20_OneShardEach ==
    /\ \A r1, r2 \in DOMAIN worker : r1 # r2 => ShardName(r1) # ShardName(r2)
    /\ \A r \in DOMAIN worker :
           /\ ShardName(r) \in DOMAIN shards <=> worker[r].pc = "exited"
           /\ worker[r].pc = "exited" => shards[ShardName(r)] = worker[r].output_array
           /\ Running(r) => ENABLED (WorkerLoad(r) \/ BeginWalk(r) \/ Step(r) \/ Save(r))
    /\ main_pc = "done" =>
           \A r \in DOMAIN worker :
               worker[r].pc = "exited" /\ ShardName(r) \in DOMAIN shards

(***************************************************************************)
(* Properties of the output files.                                         *)
(***************************************************************************)
\* C21: a missing output directory is no error: the shard writer of every
\* sampler worker creates the directory and writes its shard (as the pair
\* writer creates the directory of the pair files), so no worker ends on
\* the open() of its shard and every worker that was at its save has
\* written.
C21_MissingDirectoryCreated ==
    args.output_directory \notin Directories =>
        \A r \in DOMAIN worker :
            /\ worker[r].exception.type # "FileNotFoundError"
            /\ worker[r].pc = "exited" => ShardName(r) \in DOMAIN shards

\* the (word, token) occurrence the classification loop is at
CurWord == dictionary[Seek(dictionary, cursor[1], cursor[2])[1]].word
CurToken ==
    LET cur == Seek(dictionary, cursor[1], cursor[2])
    IN  dictionary[cur[1]].defn[cur[2]].tok

\* the loop classifies an occurrence
Classifying == pc = "classify" /\ cursor' # cursor

\* C22: for a natural strong pair (W,T) with K > 0 where T has no embedding
\* row, the occurrence adds no synthesized pair, the natural pair (W,T) is
\* in the strong set, nothing is raised and the loop goes on to the next
\* token of W.
C22_NoRowNoAugmentation ==
    [][ (/\ Classifying
         /\ CurWord # CurToken
         /\ Mutual(CurWord, CurToken)
         /\ CurToken \notin DOMAIN wordsToNum) =>
            /\ strong' = strong \cup {Ordered(CurWord, CurToken)}
            /\ weak' = weak
            /\ pc' = "classify" /\ exception' = NoException
            /\ cursor' = <<Seek(dictionary, cursor[1], cursor[2])[1],
                           Seek(dictionary, cursor[1], cursor[2])[2] + 1>>
      ]_vars

\* with K > 0 and rows loaded, the loop is past a strong occurrence (W,T)
\* whose token has no row and at the next token of the same word
C22_Witness ==
    /\ pc = "classify" /\ K > 0 /\ DOMAIN wordsToNum # {}
    /\ cursor[1] <= Len(dictionary)
    /\ cursor[2] > 1 /\ cursor[2] <= Len(dictionary[cursor[1]].defn)
    /\ LET W == dictionary[cursor[1]].word
           T == dictionary[cursor[1]].defn[cursor[2] - 1].tok
       IN  /\ W # T /\ Mutual(W, T)
           /\ T \notin DOMAIN wordsToNum
           /\ Ordered(W, T) \in strong
           /\ strong \subseteq NaturalStrong

\* C23: a definition token T without a definition entry of its own never
\* makes the classification raise: the occurrence (W,T) puts the pair into
\* the weak set and changes nothing else, exactly as an occurrence whose
\* token is defined by a definition that does not mention W.
C23_UndefinedTokenIsWeak ==
    [][ (Classifying /\ CurWord # CurToken) =>
            /\ CurToken \notin DictKeys(dictionary) =>
                   /\ weak' = weak \cup {Ordered(CurWord, CurToken)}
                   /\ strong' = strong
                   /\ pc' = "classify" /\ exception' = NoException
            /\ (CurToken \in DictKeys(dictionary) /\ CurWord \notin Tokens(CurToken)) =>
                   /\ weak' = weak \cup {Ordered(CurWord, CurToken)}
                   /\ strong' = strong
                   /\ pc' = "classify" /\ exception' = NoException
      ]_vars

\* the run is over with a weak pair of either kind
C23_Witness ==
    /\ pc = "done"
    /\ \E W \in Words : \E T \in Tokens(W) \ {W} :
           T \notin DictKeys(dictionary) /\ Ordered(W, T) \in weak
    /\ \E W \in Words : \E T \in Tokens(W) \ {W} :
           /\ T \in DictKeys(dictionary) /\ W \notin Tokens(T)
           /\ Ordered(W, T) \in weak

(***************************************************************************)
(* Further properties of the walk sampler.                                 *)
(***************************************************************************)
\* the edge list files that differ from f only in the signs of their weights
SignVariants(f) ==
    {[x \in 1..Len(f) |-> <<f[x][1], f[x][2], s[x] * f[x][3]>>] :
        s \in [1..Len(f) -> {1, -1}]}

\* C24: in polar mode the sign of a weight does not influence which
\* neighbor can be picked: at every position (last_node, current_node) of
\* a walk, on every graph that differs from the loaded one only in the
\* signs of its edge weights, the neighbors are the same, their absolute
\* adjusted weights are the same and the positions the draw can return
\* are the same: all of them under the uniform fallback, otherwise those of
\* non-zero adjusted weight.
C24_SignBlindSelection ==
    \A r \in DOMAIN worker :
        (Polar /\ worker[r].pc = "step") =>
            LET w == worker[r]
                ws == NeighborsWeight(w.G, w.current_node, w.last_node, w.p, w.q)
            IN  \A f \in SignVariants(args.input_file) :
                    LET G2 == ReadEdgelist(f)
                        ws2 == NeighborsWeight(G2, w.current_node, w.last_node, w.p, w.q)
                    IN  /\ Neighbors(G2, w.current_node) = Neighbors(w.G, w.current_node)
                        /\ AbsWeights(ws2) = AbsWeights(ws)
                        /\ Pick(ws2) = Pick(ws)
                        /\ Pick(ws2) =
                               IF \A y \in 1..Len(ws2) : ws2[y] = RatOf(0)
                               THEN 1..Len(ws2)
                               ELSE {y \in 1..Len(ws2) : ws2[y] # RatOf(0)}

\* a polar walk has drawn among two neighbors, one of them over an edge of
\* negative adjusted weight
C24_Witness ==
    /\ Polar
    /\ \E r \in DOMAIN worker :
           LET ws == worker[r].neighbors_weight IN
           /\ Len(ws) = 2
           /\ \E y \in 1..2 : RatLess(ws[y], RatOf(0))
           /\ \E y \in 1..2 : ~RatLess(ws[y], RatOf(0))
           /\ worker[r].pc \in {"step", "walk"}

(***************************************************************************)
(* Further properties of generate_pairs and loadEmbedding.                 *)
(***************************************************************************)
\* C25: generate_pairs never emits a pair whose two words are equal, in
\* either set and for any K: a word used in its own definition is dropped,
\* and the augmentation of a natural strong pair (W,T) never adds (W,W),
\* even when W is among the nearest neighbors of T.
C25_NoSelfPair == \A p \in strong \cup weak : p[1] # p[2]

\* C26: the two passes of loadEmbedding agree: the second pass fills as
\* many rows as the first pass counted (nb_word), so every index
\* 0..nb_word-1 is a key of numToWords and no row of the returned matrix
\* was left unfilled; with or without a header line, with a vector as
\* first line (a 1-dimensional one included) and with lines of differing
\* numbers of values.
C26_PassesAgree ==
    Returned =>
        /\ DOMAIN embedding = 0..(nb_word - 1)
        /\ Cardinality(DOMAIN numToWords) = nb_word
        /\ \A i \in 0..(nb_word - 1) : i \in DOMAIN numToWords

\* the first k cells of a row hold nodes, the others the sentinel 0
PrefixRow(row, k) ==
    /\ k <= Len(row)
    /\ \A y \in 1..Len(row) : IF y <= k THEN row[y] \in NodeCells ELSE row[y] = 0

\* C27: during every polar walk, after each step positive_count +
\* negative_count is the number of steps taken plus 1 and at most
\* max_length, and the index written is inside the row; each track row is
\* a prefix of written nodes followed only by zeros, the positive row
\* starting with the seed and the negative row with the first node reached
\* under a negative flag.
C27_TrackPrefixes ==
    [][\A r \in DOMAIN worker :
          (Polar /\ worker'[r].exception = NoException) =>
              LET w == worker[r]
                  v == worker'[r]
                  pos == w.n
                  neg == w.n_samples + w.n
              IN  /\ Beginning(r) =>
                         /\ v.positive_count = 1 /\ v.negative_count = 0
                         /\ {pos, neg} \subseteq DOMAIN v.output_array
                         /\ v.output_array[pos][1] = NumVal(v.current_node)
                         /\ PrefixRow(v.output_array[pos], 1)
                         /\ PrefixRow(v.output_array[neg], 0)
                  /\ Stepping(r) =>
                         /\ v.positive_count + v.negative_count = w.i + 1
                         /\ v.positive_count + v.negative_count <= args.max_length
                         /\ {pos, neg} \subseteq DOMAIN v.output_array
                         /\ (IF v.current_node_positive > 0
                             THEN w.positive_count ELSE w.negative_count) < args.max_length
                         /\ PrefixRow(v.output_array[pos], v.positive_count)
                         /\ PrefixRow(v.output_array[neg], v.negative_count)
                         /\ v.output_array[pos][1] = w.output_array[pos][1]
                         /\ v.output_array[neg][1] =
                                IF w.negative_count = 0 /\ v.current_node_positive < 0
                                THEN NumVal(v.current_node)
                                ELSE w.output_array[neg][1]]_vars

\* a polar walk of three nodes is over with one node on its positive row
\* and two on its negative row
C27_Witness ==
    /\ Polar
    /\ args.max_length = 3
    /\ \E r \in DOMAIN worker :
           /\ worker[r].pc \in {"walk", "save", "exited"}
           /\ worker[r].exception = NoException
           /\ worker[r].positive_count = 1
           /\ worker[r].negative_count = 2
           /\ \E x \in 0..(worker[r].n_samples - 1) :
                  /\ worker[r].output_array[x][2] = 0
                  /\ worker[r].output_array[worker[r].n_samples + x][2] # 0

\* the run asks for one walk from every node: --n_samples is -1 or the
\* number of nodes of the graph
OneWalkPerNode ==
    args.n_samples = -1 \/ args.n_samples = Cardinality(FileNodes)

\* the cells of the start nodes of the first k walks of worker record w
StartCells(w, k) == {w.output_array[x][1] : x \in 0..(k - 1)}

\* C28: when n_samples is -1 or the number of graph nodes, the start nodes
\* of one worker's walks are a permutation of the node list: no walk
\* starts where an earlier walk of the worker started, and when the walks
\* are over every node of the graph is the start node of exactly one of
\* them; otherwise each start node is some node of the graph.
C28_StartsArePermutation ==
    [][\A r \in DOMAIN worker :
          LET w == worker[r]
              v == worker'[r]
          IN  /\ Beginning(r) =>
                     /\ v.current_node \in FileNodes
                     /\ v.output_array[w.n][1] = NumVal(v.current_node)
                     /\ OneWalkPerNode => NumVal(v.current_node) \notin StartCells(w, w.n)
              /\ (OneWalkPerNode /\ w.pc = "walk" /\ v.pc = "save") =>
                     /\ w.n = Cardinality(FileNodes)
                     /\ StartCells(v, w.n) = NodeCells
                     /\ Cardinality(NodeCells) = w.n]_vars

\* a worker has walked once from each of the three nodes of a graph, not
\* in the order of the node list
C28_Witness ==
    /\ args.n_samples = -1
    /\ args.max_length > 1
    /\ \E r \in DOMAIN worker :
           /\ worker[r].pc = "exited"
           /\ worker[r].n = 3
           /\ worker[r].output_array[0][1] # NumVal(worker[r].node_list[1])
           /\ StartCells(worker[r], 3) = NodeCells

\* worker record w has loaded its graph
Loaded(w) == w.pc \notin {"unstarted", "load"} /\ w.node_list # <<>>

\* C29: every node of a graph loaded from an edge list has at least one
\* neighbor, so the dead-end early stop is never taken, and every
\* normal-mode walk writes all max_length positions of its row.
C29_NoDeadEnd ==
    \A r \in DOMAIN worker :
        LET w == worker[r] IN
        /\ Loaded(w) =>
               /\ GNodes(w.G) = FileNodes
               /\ \A u \in GNodes(w.G) : Neighbors(w.G, u) # <<>>
        /\ w.pc = "step" => Neighbors(w.G, w.current_node) # <<>>
        /\ (~Polar /\ w.pc # "raised") =>
               \A x \in DOMAIN w.output_array :
                   x < w.n => \A y \in 1..args.max_length : w.output_array[x][y] \in NodeCells

\* a normal-mode worker has saved a walk of three nodes on the graph of one
\* edge, where each end is the other's only neighbor
C29_Witness ==
    /\ ~Polar
    /\ args.input_file = GF_AB
    /\ args.max_length = 3
    /\ \E r \in DOMAIN worker :
           /\ worker[r].pc = "exited"
           /\ worker[r].n > 0
           /\ \A y \in 1..3 : shards[ShardName(r)][0][y] # 0

(***************************************************************************)
(* Properties of the definition downloader.                                *)
(***************************************************************************)
\* every ThreadDown thread has left its run loop
AllLeft == \A t \in Downloaders : threads[t].pc = "left"

\* C30: under every interleaving of the ThreadDown threads that share one
\* word queue, every thread eventually leaves its run loop once exitFlag is
\* set: none stays blocked in data_queue.get() after another thread took
\* the last word between its empty() check and its get().
C30_ThreadsLeave == (exitFlag = 1) ~> AllLeft
====
